---------------------------- MODULE Spec2Model ----------------------------
(***************************************************************************)
(* Off-policy Monte Carlo control with weighted importance sampling, as    *)
(* implemented by mc_control_importance_sampling, create_greedy_policy and *)
(* create_random_policy in                                                 *)
(*   src/racetrack/Racetrack (off-policy, weighted importance sampling).ipynb *)
(*                                                                         *)
(* Numbers.  A float is modelled as a pair <<n, d>>: an exact rational n/d *)
(* in lowest terms when d > 0, +inf = <<1, 0>>, -inf = <<-1, 0>> and       *)
(* nan = <<0, 0>>.  Finite arithmetic is exact (no rounding); the          *)
(* non-finite values follow IEEE-754 as numpy applies it.                  *)
(*                                                                         *)
(* The environment (RacetrackEnv) is not part of the source: reset() and   *)
(* step() are nondeterministic over States, RewardValues and BOOLEAN.      *)
(***************************************************************************)
EXTENDS Integers, Sequences, FiniteSets

VARIABLES
    pc,               \* position in mc_control_importance_sampling
    num_episodes,     \* argument num_episodes
    behavior_policy,  \* argument behavior_policy (see BehaviorOutputs)
    i_episode,        \* number of the episode being run (0 before the first)
    episode,          \* list of <<state, action, reward>>
    state,            \* local `state`
    done,             \* local `done` of the last env.step
    t,                \* next index of the loop in progress (generation or reverse)
    G,                \* local G
    W,                \* local W
    Q,                \* defaultdict Q: state -> row of nA values
    C,                \* defaultdict C: state -> row of nA values
    lastEval,         \* what the returned target policy last returned to its caller
    envStates,        \* history: states the environment was in during this episode
    dones,            \* history: done flags returned by env.step in this episode
    hist,             \* history: the update steps of this episode's reverse pass
    S,                \* history: per cell, the sum of W * G over all its update steps
    Q0,               \* history: Q when this episode started
    C0                \* history: C when this episode started

vars == <<pc, num_episodes, behavior_policy, i_episode, episode, state, done, t,
          G, W, Q, C, lastEval, envStates, dones, hist, S, Q0, C0>>

---------------------------------------------------------------------------
(* Bounds of the model *)

\* MAX_STEP is 70 in the source (line 27); the model runs a shorter horizon.
MAX_STEP == 3
\* num_episodes is N_EPISODE = 1000000 in the notebook's run (line 26).
NumEpisodes == 2
\* env.action_space.n
nA == 2
\* longest Q row handed to create_greedy_policy on its own
MaxRowLen == 3

States == {"s0", "s1"}
StartStates == {"s0"}
RewardValues == {-1, 1}
Actions == 0 .. (nA - 1)

---------------------------------------------------------------------------
(* Float arithmetic *)

Abs(x) == IF x < 0 THEN -x ELSE x

RECURSIVE GCD(_, _)
GCD(a, b) == IF b = 0 THEN a ELSE GCD(b, a % b)

\* the float n/d, d > 0, in lowest terms
Norm(n, d) == LET g == GCD(Abs(n), d) IN <<n \div g, d \div g>>

FromInt(n) == <<n, 1>>
Zero == FromInt(0)
One == FromInt(1)
Inf == <<1, 0>>
NaN == <<0, 0>>

IsNaN(x) == x = NaN
IsInf(x) == x[2] = 0 /\ x[1] # 0
IsFinite(x) == x[2] > 0
Sign(x) == IF x[1] > 0 THEN 1 ELSE IF x[1] < 0 THEN -1 ELSE 0

FNeg(x) == <<-x[1], x[2]>>

FAdd(x, y) ==
    IF IsNaN(x) \/ IsNaN(y) THEN NaN
    ELSE IF IsInf(x) /\ IsInf(y) THEN (IF x = y THEN x ELSE NaN)
    ELSE IF IsInf(x) THEN x
    ELSE IF IsInf(y) THEN y
    ELSE Norm(x[1] * y[2] + y[1] * x[2], x[2] * y[2])

FSub(x, y) == FAdd(x, FNeg(y))

FMul(x, y) ==
    IF IsNaN(x) \/ IsNaN(y) THEN NaN
    ELSE IF IsInf(x) \/ IsInf(y)
         THEN (IF Sign(x) * Sign(y) = 0 THEN NaN ELSE <<Sign(x) * Sign(y), 0>>)
    ELSE Norm(x[1] * y[1], x[2] * y[2])

\* x / y where the operands are numpy floats: a zero divisor gives inf or nan
\* (with a RuntimeWarning), never an exception.
FDiv(x, y) ==
    IF IsNaN(x) \/ IsNaN(y) THEN NaN
    ELSE IF IsInf(y) THEN (IF IsInf(x) THEN NaN ELSE Zero)
    ELSE IF IsInf(x) THEN <<Sign(x) * (IF y[1] < 0 THEN -1 ELSE 1), 0>>
    ELSE IF y[1] = 0 THEN (IF x[1] = 0 THEN NaN ELSE <<Sign(x), 0>>)
    ELSE Norm(x[1] * y[2] * Sign(y), x[2] * Abs(y[1]))

\* x < y; every comparison with nan is false
FLess(x, y) ==
    IF IsNaN(x) \/ IsNaN(y) THEN FALSE
    ELSE IF IsInf(x) \/ IsInf(y)
         THEN (IF IsInf(x) /\ IsInf(y) THEN x[1] < y[1]
               ELSE IF IsInf(x) THEN x[1] < 0
               ELSE y[1] > 0)
    ELSE x[1] * y[2] < y[1] * x[2]

FLeq(x, y) == (x = y /\ ~IsNaN(x)) \/ FLess(x, y)

---------------------------------------------------------------------------
(* Rows, tables and policies *)

\* np.zeros(n)
Zeros(n) == [a \in 0 .. (n - 1) |-> Zero]

RowLen(row) == Cardinality(DOMAIN row)

EmptyTable == [s \in {} |-> Zeros(nA)]

\* defaultdict(lambda: np.zeros(env.action_space.n)).__getitem__: a lookup of a
\* missing key stores the default row before returning it.
Lookup(T, s) ==
    IF s \in DOMAIN T THEN T
    ELSE [x \in DOMAIN T \cup {s} |-> IF x = s THEN Zeros(nA) ELSE T[x]]

\* the value a lookup of T[s][a] reads
Cell(T, s, a) == IF s \in DOMAIN T THEN T[s][a] ELSE Zero

\* np.argmax over indices i .. n-1 given the best index so far: the first nan
\* if there is one, else the first maximum.
RECURSIVE ArgmaxFrom(_, _, _)
ArgmaxFrom(row, i, best) ==
    IF i >= RowLen(row) THEN best
    ELSE IF IsNaN(row[best]) THEN best
    ELSE IF IsNaN(row[i]) \/ FLess(row[best], row[i])
         THEN ArgmaxFrom(row, i + 1, i)
    ELSE ArgmaxFrom(row, i + 1, best)

ArgmaxLast(row) ==
    CHOOSE b \in DOMAIN row :
        /\ \A j \in DOMAIN row : FLeq(row[j], row[b])
        /\ \A j \in DOMAIN row : j > b => FLess(row[j], row[b])

argmax(row) == ArgmaxFrom(row, 1, 0)

\* create_greedy_policy(Q).policy_fn(state): the table after the call and the
\* distribution returned.
policy_fn(Qt, s) ==
    LET Q1 == Lookup(Qt, s)
        best_action == argmax(Q1[s])
        A == [a \in DOMAIN Q1[s] |-> IF a = best_action THEN One ELSE Zero]
    IN  [Q |-> Q1, A |-> A]

\* create_random_policy(env).policy_fn: the same uniform array for every state
Uniform == [a \in Actions |-> Norm(1, nA)]
random_policy == [s \in States |-> Uniform]

\* another full-support behavior policy: action a has weight a + 1
Skewed == [a \in Actions |-> Norm(2 * (a + 1), nA * (nA + 1))]
skewed_policy == [s \in States |-> Skewed]

PointMass(b) == [a \in Actions |-> IF a = b THEN One ELSE Zero]
Dists == {Uniform} \cup {PointMass(b) : b \in Actions}

\* What a call behavior_policy(s) can return.  A pure policy is a function of
\* the state; an impure callable may return any distribution at any call.
BehaviorOutputs(s) ==
    IF behavior_policy.pure THEN {behavior_policy.f[s]} ELSE Dists

discount_factor == One

---------------------------------------------------------------------------
(* mc_control_importance_sampling *)

NoEval == {}

\* the locals and histories before the first episode
InitLocals ==
    /\ i_episode = 0
    /\ episode = <<>>
    /\ state = "s0"
    /\ done = FALSE
    /\ t = 0
    /\ G = Zero
    /\ W = One
    /\ C = EmptyTable
    /\ lastEval = NoEval
    /\ envStates = <<>>
    /\ dones = <<>>
    /\ hist = <<>>
    /\ S = EmptyTable
    /\ Q0 = EmptyTable
    /\ C0 = EmptyTable

\* behavior policies with full support: create_random_policy(env), as in the
\* call of line 230, and a non-uniform one
PurePolicies ==
    {[pure |-> TRUE, numpy |-> TRUE, f |-> p] : p \in {random_policy, skewed_policy}}

\* callables that may return any distribution of Dists at any call, as a numpy
\* array (numpy = TRUE) or as a Python list of floats (numpy = FALSE)
ImpurePolicies ==
    {[pure |-> FALSE, numpy |-> n, f |-> random_policy] : n \in BOOLEAN}

Init ==
    /\ InitLocals
    /\ pc = "loop"
    /\ Q = EmptyTable
    /\ num_episodes = NumEpisodes
    /\ behavior_policy \in PurePolicies

\* a run of one episode
InitOne ==
    /\ InitLocals
    /\ pc = "loop"
    /\ Q = EmptyTable
    /\ num_episodes = 1
    /\ behavior_policy \in PurePolicies

\* a run of one episode whose behavior policy breaks the full-support precondition
InitFault ==
    /\ InitLocals
    /\ pc = "loop"
    /\ Q = EmptyTable
    /\ num_episodes = 1
    /\ behavior_policy \in ImpurePolicies

\* for i_episode in range(1, num_episodes + 1): episode = []; state = env.reset()
StartEpisode ==
    /\ pc = "loop"
    /\ i_episode < num_episodes
    /\ i_episode' = i_episode + 1
    /\ episode' = <<>>
    /\ \E s \in StartStates :
          /\ state' = s
          /\ envStates' = <<s>>
    /\ dones' = <<>>
    /\ hist' = <<>>
    /\ Q0' = Q
    /\ C0' = C
    /\ t' = 0
    /\ pc' = "gen"
    /\ UNCHANGED <<num_episodes, behavior_policy, done, G, W, Q, C, lastEval, S>>

LoopEndsAtBudget(d, tt) == tt + 1 >= MAX_STEP

\* whether the generation loop ends after iteration tt: `if done: break`, or
\* range(MAX_STEP) is used up
LoopEnds(d, tt) == d \/ tt + 1 >= MAX_STEP

\* state = next_state
NextState(cur, next_state) == next_state

\* one iteration of `for t in range(MAX_STEP)`; the iteration that ends the loop
\* goes on to G = 0.0, W = 1.0 and the head of
\* `for t in range(len(episode))[::-1]`.
GenStep ==
    /\ pc = "gen"
    /\ t < MAX_STEP
    /\ \E probs \in BehaviorOutputs(state), action \in Actions,
          next_state \in States, r \in RewardValues, d \in BOOLEAN :
          \* np.random.choice draws only actions of positive probability
          /\ probs[action] # Zero
          /\ episode' = Append(episode, <<state, action, FromInt(r)>>)
          /\ done' = d
          /\ dones' = Append(dones, d)
          /\ IF d
             THEN /\ state' = state
                  /\ envStates' = envStates
             ELSE /\ state' = NextState(state, next_state)
                  /\ envStates' = Append(envStates, next_state)
          /\ IF LoopEnds(d, t)
             THEN /\ G' = Zero
                  /\ W' = One
                  /\ t' = Len(episode') - 1
                  /\ pc' = "rev"
             ELSE /\ t' = t + 1
                  /\ pc' = "gen"
                  /\ UNCHANGED <<G, W>>
    /\ UNCHANGED <<num_episodes, behavior_policy, i_episode, Q, C, lastEval,
                   hist, S, Q0, C0>>

GUpdateNoCarry(g, reward) == reward

\* G = discount_factor * G + reward
GUpdate(g, reward) == FAdd(FMul(discount_factor, g), reward)

CUpdateMinus(c, w) == FSub(c, w)

\* C[state][action] += W
CUpdate(c, w) == FAdd(c, w)

QUpdateUnweighted(q, w, c, g) == FAdd(q, FMul(FDiv(One, c), FSub(g, q)))

QUpdateOldC(q, w, c, g) == FAdd(q, FMul(FDiv(w, FAdd(c, w)), FSub(g, q)))

\* qd = (W / C[state][action]) * (G - Q[state][action]); Q[state][action] += qd
QUpdate(q, w, c, g) == FAdd(q, FMul(FDiv(w, c), FSub(g, q)))

BreaksNever(action, greedy) == FALSE

\* if action != np.argmax(target_policy(state)): break
Breaks(action, greedy) == action # greedy

WUpdateTimes(w, bepol) == FMul(FMul(w, One), bepol)

\* W = W * 1./bepol, bepol a numpy float
WUpdate(w, bepol) == FDiv(FMul(w, One), bepol)

\* one iteration of the reverse loop
ReverseStep ==
    /\ pc = "rev"
    /\ LET st == episode[t + 1][1]
           action == episode[t + 1][2]
           reward == episode[t + 1][3]
           G1 == GUpdate(G, reward)
           C1 == [Lookup(C, st) EXCEPT ![st][action] = CUpdate(@, W)]
           Qr == Lookup(Q, st)
           Q1 == [Qr EXCEPT ![st][action] = QUpdate(@, W, C1[st][action], G1)]
           pol == policy_fn(Q1, st)
           brk == Breaks(action, argmax(pol.A))
           S1 == [Lookup(S, st) EXCEPT ![st][action] = FAdd(@, FMul(W, G1))]
       IN  /\ state' = st
           /\ G' = G1
           /\ C' = C1
           /\ Q' = pol.Q
           /\ S' = S1
           /\ hist' = Append(hist, [t |-> t, W |-> W, G |-> G1, brk |-> brk])
           /\ IF brk
              THEN /\ W' = W
                   /\ t' = t
                   /\ pc' = "loop"
              ELSE \E probs \in BehaviorOutputs(st) :
                      LET bepol == probs[action] IN
                      IF bepol = Zero /\ ~behavior_policy.numpy
                      THEN \* ZeroDivisionError: 1./bepol with a Python float 0.0
                           /\ W' = W
                           /\ t' = t
                           /\ pc' = "aborted"
                      ELSE /\ W' = WUpdate(W, bepol)
                           /\ t' = t - 1
                           /\ pc' = IF t > 0 THEN "rev" ELSE "loop"
    /\ UNCHANGED <<num_episodes, behavior_policy, i_episode, episode, done, lastEval,
                   envStates, dones, Q0, C0>>

\* return Q, target_policy: the per-episode locals are dropped, the tables stay
Return ==
    /\ pc = "loop"
    /\ i_episode = num_episodes
    /\ pc' = "returned"
    /\ episode' = <<>>
    /\ state' = "s0"
    /\ done' = FALSE
    /\ t' = 0
    /\ G' = Zero
    /\ W' = One
    /\ envStates' = <<>>
    /\ dones' = <<>>
    /\ hist' = <<>>
    /\ Q0' = Q
    /\ C0' = C
    /\ UNCHANGED <<num_episodes, behavior_policy, i_episode, Q, C, S, lastEval>>

\* the caller evaluates the returned target_policy at state s
\* (env.score(policy), env.play(policy))
EvalPolicy(s) ==
    /\ pc = "returned"
    /\ LET pol == policy_fn(Q, s)
       IN  /\ Q' = pol.Q
           /\ lastEval' = {[state |-> s, A |-> pol.A]}
    /\ UNCHANGED <<pc, num_episodes, behavior_policy, i_episode, episode, state, done,
                   t, G, W, C, envStates, dones, hist, S, Q0, C0>>

Next ==
    \/ StartEpisode
    \/ GenStep
    \/ ReverseStep
    \/ Return
    \/ \E s \in States : EvalPolicy(s)

\* the generation loop never waits: it has no suspension point, so an iteration
\* that can run does run
Fairness == WF_vars(GenStep)

Spec == Init /\ [][Next]_vars

SpecOne == InitOne /\ [][Next]_vars /\ Fairness

SpecFault == InitFault /\ [][Next]_vars

---------------------------------------------------------------------------
(* create_greedy_policy on a table of its own *)

ProbeValues == {Zero, Norm(1, 5), Norm(1, 2), FromInt(-1)}

ProbeRows == UNION {[0 .. (n - 1) -> ProbeValues] : n \in 1 .. MaxRowLen}

\* policy = create_greedy_policy(Q) for a table Q holding one row
InitGreedy ==
    /\ InitLocals
    /\ pc = "returned"
    /\ num_episodes = 0
    /\ behavior_policy \in {[pure |-> TRUE, numpy |-> TRUE, f |-> random_policy]}
    /\ \E row \in ProbeRows : Q = [s \in {"s0"} |-> row]

NextGreedy == \E s \in States : EvalPolicy(s)

SpecGreedy == InitGreedy /\ [][NextGreedy]_vars

---------------------------------------------------------------------------
(* Properties *)

\* the row [0.2, 0.5, 0.5]
TieRow == [a \in 0 .. 2 |-> IF a = 0 THEN Norm(1, 5) ELSE Norm(1, 2)]

\* C1: whatever row the greedy policy reads, the distribution it returns has the
\* row's length, with 1.0 at the lowest index holding the row's maximum and 0
\* everywhere else.
C1_GreedyOneHot ==
    \A e \in lastEval :
        LET row == Q[e.state] IN
        /\ DOMAIN e.A = DOMAIN row
        /\ \E b \in DOMAIN row :
              /\ \A j \in DOMAIN row : FLeq(row[j], row[b])
              /\ \A j \in DOMAIN row : j < b => FLess(row[j], row[b])
              /\ \A a \in DOMAIN row : e.A[a] = IF a = b THEN One ELSE Zero

\* the policy was evaluated on the row [0.2, 0.5, 0.5] and returned [0, 1, 0]
C1_Witness ==
    \E e \in lastEval :
        /\ Q[e.state] = TieRow
        /\ e.A = [a \in 0 .. 2 |-> IF a = 1 THEN One ELSE Zero]

\* C2: evaluating the returned greedy target policy, at any state, leaves the Q
\* table as it was (no row added, no value changed).
C2_EvalLeavesQUnchanged == [][pc = "returned" => Q' = Q]_vars

\* C8: no cell of Q or C ever holds a non-finite value, whatever the behavior
\* policy returns (a zero probability for the action taken aborts the run before
\* any later update step).
C8_NoNonFiniteValues ==
    \A s \in States, a \in Actions :
        /\ IsFinite(Cell(Q, s, a))
        /\ IsFinite(Cell(C, s, a))

\* index into `episode` (from 1) of the k-th entry the reverse pass processed
Processed(k) == hist[k].t + 1

\* whether row[b] is the first maximum of row
IsFirstMax(row, b) ==
    /\ \A j \in DOMAIN row : FLeq(row[j], row[b])
    /\ \A j \in DOMAIN row : j < b => FLess(row[j], row[b])

\* the sum of the weights of the first n update steps of this pass that hit (s, a)
RECURSIVE WeightSum(_, _, _)
WeightSum(s, a, n) ==
    IF n = 0 THEN Zero
    ELSE LET e == episode[Processed(n)]
             rest == WeightSum(s, a, n - 1)
         IN  IF e[1] = s /\ e[2] = a THEN FAdd(rest, hist[n].W) ELSE rest

C3Inv ==
    /\ \A k \in 1 .. Len(hist) : Processed(k) = Len(episode) - k + 1
    /\ \A k \in 1 .. (Len(hist) - 1) : ~hist[k].brk
    /\ (hist # <<>> /\ hist[Len(hist)].brk) => pc = "loop"
    /\ \A s \in States, a \in Actions :
          /\ Cell(C, s, a) = FAdd(Cell(C0, s, a), WeightSum(s, a, Len(hist)))
          /\ (\A k \in 1 .. Len(hist) :
                 episode[Processed(k)][1] # s \/ episode[Processed(k)][2] # a)
             => Cell(Q, s, a) = Cell(Q0, s, a)

C3Step ==
    pc = "rev" =>
        LET e == episode[t + 1]
            disagrees == ~IsFirstMax(Q'[e[1]], e[2])
        IN  /\ hist'[Len(hist')].brk = disagrees
            /\ disagrees => pc' = "loop"

\* C3: in a reverse pass the entries are processed from the last one backwards,
\* and once an entry's action is not the greedy action of Q as just updated, the
\* pass is over: every entry processed before it agreed, C has grown by exactly
\* the weights of the processed entries, and no cell of Q other than theirs has
\* changed since the episode started (one cell, when the last entry disagrees).
C3_StopsAtFirstDisagreement == []C3Inv /\ [][C3Step]_vars

\* a three-step trajectory whose last entry disagreed: one update, pass over
C3_Witness ==
    /\ pc = "loop"
    /\ Len(episode) = 3
    /\ Len(hist) = 1
    /\ hist[1].brk

C4Step ==
    (pc = "rev" /\ W = One /\ Cell(C, episode[t + 1][1], episode[t + 1][2]) = Zero
                /\ Cell(Q, episode[t + 1][1], episode[t + 1][2]) = Zero)
    => /\ C'[episode[t + 1][1]][episode[t + 1][2]] = One
       /\ Q'[episode[t + 1][1]][episode[t + 1][2]] = G'

C4Inv ==
    (pc = "loop" /\ i_episode = 1 /\ Len(episode) = 1 /\ episode[1][3] = One
                 /\ discount_factor = One)
    => /\ Cell(C, episode[1][1], episode[1][2]) = One
       /\ Cell(Q, episode[1][1], episode[1][2]) = One

\* C4: an update step with W = 1 on a cell whose C and Q are 0 leaves C = 1 and
\* Q equal to the return G of that step; the first episode, if it is the single
\* step (s0, a0, 1.0), ends with C[s0][a0] = 1 and Q[s0][a0] = 1.
C4_FirstUpdateIsReturn == []C4Inv /\ [][C4Step]_vars

\* the first episode was (s0, 1, reward 1.0) and its pass is over
C4_Witness ==
    /\ pc = "loop"
    /\ i_episode = 1
    /\ episode = <<<<"s0", 1, One>>>>
    /\ Len(hist) = 1
    /\ Q["s0"][1] = One

C5Inv == \A s \in States, a \in Actions : FLeq(Zero, Cell(C, s, a))

C5Step == \A s \in States, a \in Actions : FLeq(Cell(C, s, a), Cell(C', s, a))

\* C5: no cell of C is ever negative, and no step makes a cell of C smaller.
C5_CMonotone == []C5Inv /\ [][C5Step]_vars

\* in the second episode a cell that was already positive has grown again
C5_Witness ==
    /\ i_episode = 2
    /\ \E s \in States, a \in Actions :
          /\ FLess(Zero, Cell(C0, s, a))
          /\ FLess(Cell(C0, s, a), Cell(C, s, a))

\* the sum of the rewards of entries i .. Len(ep)
RECURSIVE SumRewards(_, _)
SumRewards(ep, i) ==
    IF i > Len(ep) THEN Zero ELSE FAdd(ep[i][3], SumRewards(ep, i + 1))

\* C6: with discount factor 1.0, the return used by the update of trajectory
\* index t is the sum of the rewards of entries t .. last.
C6_UndiscountedReturn ==
    discount_factor = One =>
        \A k \in 1 .. Len(hist) : hist[k].G = SumRewards(episode, Processed(k))

\* a three-step episode with mixed rewards whose pass reached the earliest step
C6_Witness ==
    /\ Len(episode) = 3
    /\ Len(hist) = 3
    /\ episode[1][3] # episode[2][3]
    /\ hist[3].G = FAdd(episode[1][3], FAdd(episode[2][3], episode[3][3]))

C7Inv ==
    /\ Len(episode) <= MAX_STEP
    /\ Len(dones) = Len(episode)
    /\ \A k \in 1 .. (Len(episode) - 1) : ~dones[k]
    /\ \A k \in 1 .. Len(episode) : episode[k][1] = envStates[k]
    /\ pc = "gen" =>
          /\ Len(episode) < MAX_STEP
          /\ \A k \in 1 .. Len(episode) : ~dones[k]
          /\ state = envStates[Len(episode) + 1]
    /\ (pc = "rev" \/ (pc = "loop" /\ i_episode > 0)) =>
          /\ Len(episode) >= 1
          /\ dones[Len(episode)] \/ Len(episode) = MAX_STEP
    /\ (pc = "loop" /\ i_episode > 0) =>
          /\ hist # <<>>
          /\ Processed(1) = Len(episode)

\* C7: generation ends, with 1 .. MAX_STEP triples: right after the first step
\* whose done flag is true, else after MAX_STEP steps; each triple holds the state
\* the environment was in when the action was taken; and the reverse pass then
\* processes the trajectory, whether it ended by done or by the budget.
C7_GenerationTerminates == []C7Inv /\ ((pc = "gen") ~> (pc = "rev"))

\* a trajectory that used up the budget without done has been processed
C7_Witness ==
    /\ pc = "loop"
    /\ Len(episode) = MAX_STEP
    /\ ~dones[MAX_STEP]
    /\ hist # <<>>

RECURSIVE Pow(_, _)
Pow(b, e) == IF e = 0 THEN 1 ELSE b * Pow(b, e - 1)

\* the product of 1 / pol(state)[action] over the first n entries processed
RECURSIVE RatioProduct(_, _)
RatioProduct(pol, n) ==
    IF n = 0 THEN One
    ELSE LET e == episode[Processed(n)]
         IN  FMul(RatioProduct(pol, n - 1), FDiv(One, pol[e[1]][e[2]]))

C9Inv ==
    \A k \in 1 .. Len(hist) :
        /\ hist[k].W = RatioProduct(behavior_policy.f, k - 1)
        /\ behavior_policy.f = random_policy => hist[k].W = FromInt(Pow(nA, k - 1))

C9Step ==
    /\ (pc = "gen" /\ pc' = "rev") => (G' = Zero /\ W' = One /\ Q' = Q /\ C' = C)
    /\ (pc = "loop" /\ pc' = "gen") => (Q' = Q /\ C' = C)
    /\ (pc = "rev" /\ hist'[Len(hist')].brk) => W' = W

\* C9: every reverse pass starts from G = 0 and W = 1 with Q and C as the earlier
\* episodes left them; W is left alone by an entry that disagrees with the greedy
\* action; and the weight applied at the k-th processed entry is the product of
\* 1 / behavior_policy(state)[action] over the k - 1 entries processed before it,
\* nA^(k-1) under the uniform random policy.
C9_WeightIsRatioProduct == []C9Inv /\ [][C9Step]_vars

\* the second episode's pass reached a third entry, with weight nA^2
C9_Witness ==
    /\ i_episode = 2
    /\ behavior_policy.f = random_policy
    /\ C0 # EmptyTable
    /\ Len(hist) = 3
    /\ hist[3].W = FromInt(nA * nA)

\* C10: for every cell with C > 0, Q * C is the sum of W * G over all the update
\* steps ever applied to the cell.
C10_WeightedMean ==
    \A s \in DOMAIN C : \A a \in Actions :
        FLess(Zero, C[s][a]) => FMul(Q[s][a], C[s][a]) = S[s][a]

\* a cell updated in both episodes, whose mean is not an integer
C10_Witness ==
    /\ i_episode = 2
    /\ \E s \in DOMAIN C : \E a \in Actions :
          /\ FLess(Zero, Cell(C0, s, a))
          /\ FLess(Cell(C0, s, a), C[s][a])
          /\ Q[s][a][2] > 1

=============================================================================
